---- MODULE Spec2Model ----
(***************************************************************************)
(* Model of stripe-csv: the amount decoder (src/amount_serde.rs) and the   *)
(* fees aggregator (src/parser/fees.rs).                                   *)
(*                                                                         *)
(* Text is a sequence of one-character strings.  An f64 is modelled bit    *)
(* for bit: a 53-bit mantissa and a binary exponent, with IEEE-754         *)
(* round-to-nearest-even after every operation, so that the decimal ->     *)
(* binary -> decimal conversions of the code are computed, not assumed     *)
(* exact.  An i64 keeps its width: sign and magnitude, wrapped to 64 bits. *)
(***************************************************************************)
EXTENDS Integers, Sequences, FiniteSets, TLC

(***************************************************************************)
(* Natural numbers of any width: sequences of limbs in base 2^LimbBits,    *)
(* most significant first, without leading zero limbs (zero is <<>>).      *)
(* Every intermediate value of the operators below stays under 2^31.       *)
(***************************************************************************)
LimbBits == 12
Base == 2 ^ LimbBits

Front(s) == SubSeq(s, 1, Len(s) - 1)

Drop(s, n) == SubSeq(s, n + 1, Len(s))

Zeros(n) == [i \in 1..n |-> 0]

AnyNonZero(b) == \E i \in 1..Len(b) : b[i] # 0

\* b without its leading zero limbs
Norm(b) == IF ~AnyNonZero(b) THEN <<>>
           ELSE Drop(b, (CHOOSE j \in 1..Len(b) :
                           b[j] # 0 /\ \A i \in 1..(j - 1) : b[i] = 0) - 1)

RECURSIVE BigNat(_)
BigNat(n) == IF n = 0 THEN <<>> ELSE BigNat(n \div Base) \o <<n % Base>>

\* b * k + carry, for k < Base - 1 and carry < Base
RECURSIVE MulAdd(_, _, _)
MulAdd(b, k, carry) ==
    IF b = <<>> THEN BigNat(carry)
    ELSE LET v == b[Len(b)] * k + carry
         IN  MulAdd(Front(b), k, v \div Base) \o <<v % Base>>

\* quotient (Len(b) limbs) and remainder of (rem * Base^Len(b) + b) by d,
\* for rem < d < 2^31 / Base
RECURSIVE DivRem(_, _, _)
DivRem(b, d, rem) ==
    IF b = <<>> THEN [q |-> <<>>, r |-> rem]
    ELSE LET v    == rem * Base + b[1]
             rest == DivRem(Tail(b), d, v % d)
         IN  [q |-> <<v \div d>> \o rest.q, r |-> rest.r]

Odd(b) == b # <<>> /\ b[Len(b)] % 2 = 1

Half(b) == Norm(DivRem(b, 2, 0).q)

\* the number of bits of b
BitLen(b) ==
    IF b = <<>> THEN 0
    ELSE LimbBits * (Len(b) - 1)
         + (CHOOSE k \in 1..LimbBits : 2 ^ (k - 1) <= b[1] /\ b[1] < 2 ^ k)

\* b * 2^s
ShiftLeft(b, s) ==
    IF b = <<>> THEN <<>>
    ELSE MulAdd(b \o Zeros(s \div LimbBits), 2 ^ (s % LimbBits), 0)

\* a quotient without its leading zeros, and whether anything was lost
DivSticky(qr, lost) == [q |-> Norm(qr.q), sticky |-> lost \/ qr.r # 0]

\* b \div 2^s, and whether a one was shifted out
ShiftRight(b, s) ==
    DivSticky(DivRem(SubSeq(b, 1, Len(b) - s \div LimbBits), 2 ^ (s % LimbBits), 0),
              AnyNonZero(SubSeq(b, Len(b) - s \div LimbBits + 1, Len(b))))

\* b * 10^n
RECURSIVE MulPow10(_, _)
MulPow10(b, n) == IF n = 0 THEN b ELSE MulAdd(MulPow10(b, n - 1), 10, 0)

DivBy10(prev) == DivSticky(DivRem(prev.q, 10, 0), prev.sticky)

\* b \div 10^n, and whether a division left a remainder
RECURSIVE DivPow10(_, _)
DivPow10(b, n) ==
    IF n = 0 THEN [q |-> b, sticky |-> FALSE] ELSE DivBy10(DivPow10(b, n - 1))

\* int, or int + 1 when the bit below it is set and the tie rule says up
RoundUp(int, round, force) ==
    IF round /\ (force \/ Odd(int)) THEN MulAdd(int, 1, 1) ELSE int

\* a + b + carry
RECURSIVE AddLimbs(_, _, _)
AddLimbs(a, b, carry) ==
    IF a = <<>> /\ b = <<>> THEN BigNat(carry)
    ELSE LET v == (IF a = <<>> THEN 0 ELSE a[Len(a)])
                  + (IF b = <<>> THEN 0 ELSE b[Len(b)]) + carry
         IN  AddLimbs(Front(a), Front(b), v \div Base) \o <<v % Base>>

\* a - b - borrow, for a >= b + borrow; as many limbs as a
RECURSIVE SubLimbs(_, _, _)
SubLimbs(a, b, borrow) ==
    IF a = <<>> THEN <<>>
    ELSE LET v == a[Len(a)] - (IF b = <<>> THEN 0 ELSE b[Len(b)]) - borrow
         IN  SubLimbs(Front(a), Front(b), IF v < 0 THEN 1 ELSE 0)
             \o <<(v + Base) % Base>>

\* a < b
Less(a, b) ==
    \/ Len(a) < Len(b)
    \/ /\ Len(a) = Len(b)
       /\ \E i \in 1..Len(a) : a[i] < b[i] /\ \A j \in 1..(i - 1) : a[j] = b[j]

\* integers of any width: a sign and a magnitude, zero never negative
Signed(neg, mag) == [neg |-> neg /\ mag # <<>>, mag |-> mag]

\* x + y
AddSigned(x, y) ==
    IF x.neg = y.neg THEN Signed(x.neg, AddLimbs(x.mag, y.mag, 0))
    ELSE IF Less(x.mag, y.mag) THEN Signed(y.neg, Norm(SubLimbs(y.mag, x.mag, 0)))
    ELSE Signed(x.neg, Norm(SubLimbs(x.mag, y.mag, 0)))

(***************************************************************************)
(* IEEE-754 binary64.  A finite non-zero value is m * 2^e with m a number  *)
(* of exactly MantBits bits.  The exponent range is not modelled: every    *)
(* value the model computes is a normal number.                            *)
(***************************************************************************)
MantBits == 53

FZero(neg) == [kind |-> "zero", neg |-> neg, m |-> <<>>, e |-> 0]
FInf(neg)  == [kind |-> "inf",  neg |-> neg, m |-> <<>>, e |-> 0]
FNaN       == [kind |-> "nan",  neg |-> FALSE, m |-> <<>>, e |-> 0]
Finite(neg, m, e) == [kind |-> "finite", neg |-> neg, m |-> m, e |-> e]

\* a rounded mantissa that carried into bit MantBits + 1 is 2^MantBits
Renorm(neg, m, e) ==
    IF BitLen(m) > MantBits THEN Finite(neg, Half(m), e + 1) ELSE Finite(neg, m, e)

\* sh.q is the mantissa followed by the round bit; ties to even
RoundShifted(neg, sh, e, sticky) ==
    Renorm(neg, RoundUp(Half(sh.q), Odd(sh.q), sh.sticky \/ sticky), e)

RoundBits(neg, b, e, sticky, len) ==
    IF len <= MantBits
    THEN Finite(neg, ShiftLeft(b, MantBits - len), e - (MantBits - len))
    ELSE RoundShifted(neg, ShiftRight(b, len - MantBits - 1), e + (len - MantBits),
                      sticky)

\* the binary64 nearest to (b + t) * 2^e, ties to even, where t = 0 unless
\* sticky and then 0 < t < 1 (sticky only with BitLen(b) > MantBits)
RoundF64(neg, b, e, sticky) ==
    IF b = <<>> THEN FZero(neg) ELSE RoundBits(neg, b, e, sticky, BitLen(b))

DivRound(neg, qs, e) == RoundF64(neg, qs.q, e, qs.sticky)

\* the binary64 nearest to (b / 10^n) * 2^e: the quotient is computed with
\* more than MantBits + 2 bits
DivF64(neg, b, n, e) ==
    IF b = <<>> THEN FZero(neg)
    ELSE DivRound(neg, DivPow10(ShiftLeft(b, MantBits + 2 + 4 * n), n),
                  e - (MantBits + 2 + 4 * n))

\* x * 100.0
Mul100(x) ==
    IF x.kind # "finite" THEN x
    ELSE RoundF64(x.neg, MulAdd(x.m, 100, 0), x.e, FALSE)

\* x / 100.0
Div100(x) ==
    IF x.kind # "finite" THEN x
    ELSE DivF64(x.neg, x.m, 2, x.e)

RoundInt(sh, away) == RoundUp(Half(sh.q), Odd(sh.q), away \/ sh.sticky)

\* the magnitude of m * 2^e rounded to an integer: ties away from zero
\* (f64::round) or ties to even
RoundMag(m, e, away) ==
    IF e >= 0 THEN ShiftLeft(m, e)
    ELSE RoundInt(ShiftRight(m, (0 - e) - 1), away)

(***************************************************************************)
(* i64 as sign and magnitude; `as i64` saturates and maps NaN to 0.        *)
(***************************************************************************)
I64Bits == 63

\* 2^n - 1
AllOnes(n) ==
    (IF n % LimbBits = 0 THEN <<>> ELSE <<2 ^ (n % LimbBits) - 1>>)
    \o [i \in 1..(n \div LimbBits) |-> Base - 1]

I64Max == [neg |-> FALSE, mag |-> AllOnes(I64Bits)]
I64Min == [neg |-> TRUE,  mag |-> ShiftLeft(<<1>>, I64Bits)]

Saturate(neg, mag) ==
    IF BitLen(mag) > I64Bits THEN (IF neg THEN I64Min ELSE I64Max)
    ELSE Signed(neg, mag)

AsI64(x) ==
    CASE x.kind = "nan"  -> [neg |-> FALSE, mag |-> <<>>]
      [] x.kind = "zero" -> [neg |-> FALSE, mag |-> <<>>]
      [] x.kind = "inf"  -> IF x.neg THEN I64Min ELSE I64Max
      [] OTHER -> Saturate(x.neg, RoundMag(x.m, x.e, TRUE))

InI64(v) == IF v.neg THEN ~Less(I64Min.mag, v.mag) ELSE ~Less(I64Max.mag, v.mag)

\* v + 2^64 or v - 2^64, towards zero
Wrap64(v) == AddSigned(v, [neg |-> ~v.neg, mag |-> ShiftLeft(<<1>>, I64Bits + 1)])

\* i64 addition without overflow checks: the sum modulo 2^64
WrapSum(sum) == IF InI64(sum) THEN sum ELSE Wrap64(sum)

wrapping_add(x, y) == WrapSum(AddSigned(x, y))

\* i64 as f64
AsF64(v) == RoundF64(v.neg, v.mag, 0, FALSE)

\* the i64 of a small integer
IntI64(n) == IF n < 0 THEN Signed(TRUE, BigNat(0 - n)) ELSE Signed(FALSE, BigNat(n))

(***************************************************************************)
(* str::parse::<f64> (core::num::dec2flt): [sign] (inf | infinity | nan |  *)
(* digits [. digits] [e [sign] digits]), letters in either case, at least  *)
(* one digit in the mantissa and, after an e, in the exponent.             *)
(***************************************************************************)
Digits == {"0", "1", "2", "3", "4", "5", "6", "7", "8", "9"}

DigitVal(c) ==
    CASE c = "0" -> 0 [] c = "1" -> 1 [] c = "2" -> 2 [] c = "3" -> 3
      [] c = "4" -> 4 [] c = "5" -> 5 [] c = "6" -> 6 [] c = "7" -> 7
      [] c = "8" -> 8 [] c = "9" -> 9

Lower(c) ==
    CASE c = "I" -> "i" [] c = "N" -> "n" [] c = "F" -> "f" [] c = "A" -> "a"
      [] c = "T" -> "t" [] c = "Y" -> "y" [] c = "E" -> "e"
      [] OTHER -> c

LowerAll(s) == [i \in 1..Len(s) |-> Lower(s[i])]

AllDigits(s) == \A i \in 1..Len(s) : s[i] \in Digits

\* the length of the longest prefix of s made of digits
RECURSIVE DigitRun(_)
DigitRun(s) == IF s = <<>> \/ s[1] \notin Digits THEN 0
               ELSE 1 + DigitRun(Tail(s))

\* the number written by the decimal digits s
RECURSIVE DecBig(_)
DecBig(s) == IF s = <<>> THEN <<>>
             ELSE MulAdd(DecBig(Front(s)), 10, DigitVal(s[Len(s)]))

RECURSIVE DecNat(_)
DecNat(s) == IF s = <<>> THEN 0 ELSE 10 * DecNat(Front(s)) + DigitVal(s[Len(s)])

ParseErr == [ok |-> FALSE, value |-> FNaN]

\* the binary64 nearest to digits * 10^scale
Decimal(neg, digits, scale) ==
    [ok |-> TRUE,
     value |-> IF scale >= 0
               THEN RoundF64(neg, MulPow10(DecBig(digits), scale), 0, FALSE)
               ELSE DivF64(neg, DecBig(digits), 0 - scale, 0)]

ExpValue(neg, digits, nf, eneg, edig) ==
    IF edig = <<>> \/ ~AllDigits(edig) THEN ParseErr
    ELSE Decimal(neg, digits,
                 (IF eneg THEN 0 - DecNat(edig) ELSE DecNat(edig)) - nf)

\* after the e: an optional sign and the exponent digits
ParseExpDigits(neg, digits, nf, rest) ==
    IF rest # <<>> /\ rest[1] \in {"+", "-"}
    THEN ExpValue(neg, digits, nf, rest[1] = "-", Tail(rest))
    ELSE ExpValue(neg, digits, nf, FALSE, rest)

\* after the mantissa: nothing, or an exponent
ParseExponent(neg, int, frac, rest) ==
    IF int = <<>> /\ frac = <<>> THEN ParseErr
    ELSE IF rest = <<>> THEN Decimal(neg, int \o frac, 0 - Len(frac))
    ELSE IF Lower(rest[1]) # "e" THEN ParseErr
    ELSE ParseExpDigits(neg, int \o frac, Len(frac), Tail(rest))

\* after the integer digits: an optional point and fraction digits
ParseFraction(neg, int, rest) ==
    IF rest # <<>> /\ rest[1] = "."
    THEN ParseExponent(neg, int, SubSeq(rest, 2, 1 + DigitRun(Tail(rest))),
                       Drop(rest, 1 + DigitRun(Tail(rest))))
    ELSE ParseExponent(neg, int, <<>>, rest)

\* the unsigned decimal number: integer digits, fraction digits, exponent
ParseNumber(neg, s) ==
    ParseFraction(neg, SubSeq(s, 1, DigitRun(s)), Drop(s, DigitRun(s)))

OrInfNan(num, neg, low) ==
    IF num.ok THEN num
    ELSE IF low \in {<<"i", "n", "f">>, <<"i", "n", "f", "i", "n", "i", "t", "y">>}
    THEN [ok |-> TRUE, value |-> FInf(neg)]
    ELSE IF low = <<"n", "a", "n">> THEN [ok |-> TRUE, value |-> FNaN]
    ELSE ParseErr

ParseUnsigned(neg, body) == OrInfNan(ParseNumber(neg, body), neg, LowerAll(body))

ParseF64(s) ==
    IF s = <<>> THEN ParseErr
    ELSE IF s[1] \in {"+", "-"} THEN ParseUnsigned(s[1] = "-", Tail(s))
    ELSE ParseUnsigned(FALSE, s)

(***************************************************************************)
(* amount_serde::deserialize                                               *)
(***************************************************************************)
\* s.replace(',', ".")
Normalize(s) == [i \in 1..Len(s) |-> IF s[i] = "," THEN "." ELSE s[i]]

\* map_err(..)?, then (value * 100.0).round() as i64
ToAmount(value) ==
    IF ~value.ok THEN [ok |-> FALSE, amount |-> [neg |-> FALSE, mag |-> <<>>]]
    ELSE [ok |-> TRUE, amount |-> AsI64(Mul100(value.value))]

deserialize(s) == ToAmount(ParseF64(Normalize(s)))

(***************************************************************************)
(* Display: `{}` of an unsigned integer and `{:.2}` of an f64.             *)
(***************************************************************************)
DigitChar(d) ==
    CASE d = 0 -> "0" [] d = 1 -> "1" [] d = 2 -> "2" [] d = 3 -> "3"
      [] d = 4 -> "4" [] d = 5 -> "5" [] d = 6 -> "6" [] d = 7 -> "7"
      [] d = 8 -> "8" [] d = 9 -> "9"

\* the decimal digits of b, none for zero
RECURSIVE BigDec(_)
BigDec(b) == IF b = <<>> THEN <<>>
             ELSE LET qr == DivRem(b, 10, 0)
                  IN  BigDec(Norm(qr.q)) \o <<DigitChar(qr.r)>>

PadTo(d, n) == [i \in 1..(n - Len(d)) |-> "0"] \o d

\* digits, padded with leading zeros to at least n digits
PadDec(b, n) == PadTo(BigDec(b), n)

\* `{}` of an unsigned integer
FmtUnsigned(n) == PadDec(BigNat(n), 1)

\* a count of hundredths as units, a point and two digits
Point2(neg, d) ==
    (IF neg THEN <<"-">> ELSE <<>>)
    \o SubSeq(d, 1, Len(d) - 2) \o <<".">> \o SubSeq(d, Len(d) - 1, Len(d))

Hundredths(neg, q) == Point2(neg, PadDec(q, 3))

\* `{:.2}` of a finite f64: the exact binary value to two decimals, ties to
\* even, with the sign of the float
FmtFixed2(x) ==
    IF x.kind = "zero" THEN Hundredths(x.neg, <<>>)
    ELSE Hundredths(x.neg,
             RoundMag(MulAdd(x.m, 100, 0), x.e, FALSE))

(***************************************************************************)
(* AccountFees (fees.rs)                                                   *)
(***************************************************************************)
new(account_id, email) ==
    [account_id |-> account_id, email |-> email,
     transaction_count |-> 0, total_fees |-> Signed(FALSE, <<>>)]

\* a plausible slip: `=` for `+=`
add_fee_assigns(self, fee) ==
    [self EXCEPT !.transaction_count = @ + 1, !.total_fees = fee]

\* `self.total_fees += fee` where the build does not check overflow
add_fee(self, fee) ==
    [self EXCEPT !.transaction_count = @ + 1,
                 !.total_fees = wrapping_add(@, fee)]

\* `self.total_fees += fee` panics where the build checks overflow
overflows(self, fee) == ~InI64(AddSigned(self.total_fees, fee))

csv_header == "account_id,email,transaction_count,total_fees_eur"

\* total_fees as f64 / 100.0, `{:.2}`
FmtEur(total_fees) == FmtFixed2(Div100(AsF64(total_fees)))

\* impl Display for AccountFees
fmt(self) ==
    <<self.account_id, ",", self.email, ",">>
    \o FmtUnsigned(self.transaction_count) \o <<",">> \o FmtEur(self.total_fees)

(***************************************************************************)
(* The world of one `parse` invocation: paths, the file system, the input  *)
(* CSV.  A file name is a sequence of tokens, "." being a token of its     *)
(* own; account ids and emails are atoms.                                  *)
(***************************************************************************)
MaxRows == 2

None == [some |-> FALSE]
Some(v) == [some |-> TRUE, v |-> v]

\* a token standing for bytes that are not valid UTF-8
NonUtf8 == "caf\\xE9"

InputNames == {<<"fees", ".", "csv">>, <<NonUtf8, ".", "csv">>}
InputDir == "data"
OtherOutput == [dir |-> "new", name |-> <<"summary", ".", "csv">>]

\* Path::file_stem: the name up to its last "." (the whole name when it has
\* none, or only a leading one)
file_stem(name) ==
    LET dots == {i \in 2..Len(name) : name[i] = "."}
    IN  IF dots = {} THEN name
        ELSE SubSeq(name, 1, (CHOOSE i \in dots : \A j \in dots : j <= i) - 1)

\* OsStr::to_str
to_str(os) == IF \E i \in 1..Len(os) : os[i] = NonUtf8 THEN None ELSE Some(os)

\* a plausible slip: file_name for file_stem
default_output_keeps_ext(file) ==
    [dir |-> file.dir, name |-> file.name \o <<"_out.csv">>]

\* fees.rs 77-86: the output path when none is given
default_output(file) ==
    LET stem == to_str(file_stem(file.name))
    IN  [dir |-> file.dir,
         name |-> (IF stem.some THEN stem.v ELSE <<"output">>) \o <<"_out.csv">>]

Paths == {[dir |-> InputDir, name |-> n] : n \in InputNames}
         \cup {default_output([dir |-> InputDir, name |-> n]) : n \in InputNames}
         \cup {OtherOutput}

Absent == [kind |-> "absent"]
Dir == [kind |-> "dir"]
File(content) == [kind |-> "file", content |-> content]

Required == {"Amount", "User ID", "User Email"}
Headers == {Required, {"Amount", "User ID"}}

AmountTexts == {<<"0", ",", "2", "5">>, <<"-", "1", ".", "5">>,
                <<"9", "e", "1", "8">>, <<"i", "n", "v", "a", "l", "i", "d">>}
Emails == {"a@x", "b@x"}

\* a data row: its cells by column name, or a record the CSV reader rejects
Ragged == [ragged |-> TRUE]
Rows == [ragged : {FALSE}, Amount : AmountTexts,
         UserID : {"acct_1"}, UserEmail : Emails]
        \cup {[ragged |-> FALSE, Amount |-> <<"0", ",", "2", "5">>,
                UserID |-> "acct_2", UserEmail |-> "b@x"]}
        \cup {Ragged}

RECURSIVE SeqsUpTo(_, _)
SeqsUpTo(S, n) ==
    IF n = 0 THEN {<<>>}
    ELSE LET shorter == SeqsUpTo(S, n - 1)
         IN  shorter \cup {Append(q, x) : q \in {t \in shorter : Len(t) = n - 1}, x \in S}

Inputs == [header : Headers, rows : SeqsUpTo(Rows, MaxRows)]

(***************************************************************************)
(* RowDecoder: csv::Reader::deserialize into Entry (fees.rs 12-20).  The   *)
(* record is read first, the cells are visited in header order (the        *)
(* Amount cell through amount_serde) and missing fields are reported last. *)
(***************************************************************************)
DecodeErr(kind) == [ok |-> FALSE, kind |-> kind]

visit_cells(header, row, amount) ==
    IF "Amount" \in header /\ ~amount.ok THEN DecodeErr("MalformedAmount")
    ELSE IF ~(Required \subseteq header) THEN DecodeErr("MissingColumn")
    ELSE [ok |-> TRUE,
          entry |-> [amount |-> amount.amount,
                     account_id |-> row.UserID,
                     email |-> row.UserEmail]]

decode_row(header, row) ==
    IF row.ragged THEN DecodeErr("DecodeError")
    ELSE visit_cells(header, row, deserialize(row.Amount))

\* a plausible slip: HashMap::insert without the contains_key test
insert_always(map, entry) ==
    [k \in DOMAIN map \cup {entry.account_id} |->
        IF k = entry.account_id THEN new(entry.account_id, entry.email)
        ELSE map[k]]

\* fees.rs 94-99
insert_absent(map, entry) ==
    IF entry.account_id \in DOMAIN map THEN map
    ELSE [k \in DOMAIN map \cup {entry.account_id} |->
            IF k = entry.account_id THEN new(entry.account_id, entry.email)
            ELSE map[k]]

\* fees.rs 94-104
merge(map, entry) ==
    [insert_absent(map, entry) EXCEPT ![entry.account_id] = add_fee(@, entry.amount)]

\* fees.rs 101-104 where the addition overflows and the build checks it
merge_panics(map, entry) ==
    overflows(insert_absent(map, entry)[entry.account_id], entry.amount)

\* statistic.to_string(): the blanket ToString over Display
to_string(statistic) == fmt(statistic)

\* Path::display: bytes that are not UTF-8 become U+FFFD
Lossy == "caf\\uFFFD"
display(path) ==
    [dir |-> path.dir,
     name |-> [i \in 1..Len(path.name) |->
                 IF path.name[i] = NonUtf8 THEN Lossy ELSE path.name[i]]]

\* thiserror Display of Error::FileNotFound
ErrorMessage(err) ==
    IF err.kind = "FileNotFound"
    THEN <<"the file '", display(err.path), "' does not exist">>
    ELSE <<err.kind>>

(***************************************************************************)
(* parse (fees.rs 72-125), one action per statement group.                 *)
(***************************************************************************)
VARIABLES
    file,        \* argument: the input path
    output_arg,  \* argument: Option<PathBuf>
    fs,          \* Paths -> Absent, Dir or File(content)
    dirs,        \* the directories that exist
    pc,          \* position in parse
    output,      \* the local `output` once bound
    consumed,    \* rows the reader has yielded
    statistics,  \* the HashMap
    pending,     \* keys statistics.values() has still to yield
    result,      \* what parse has returned
    text,        \* amount decoder alone: the cell
    decoded,     \* amount decoder alone: its result
    fees,        \* Display alone: an AccountFees with an i64 total
    line         \* Display alone: its rendering

parseVars == <<file, output_arg, fs, dirs, pc, output, consumed, statistics,
               pending, result>>
pureVars == <<text, decoded, fees, line>>
vars == <<file, output_arg, fs, dirs, pc, output, consumed, statistics,
          pending, result, text, decoded, fees, line>>

EmptyMap == [k \in {} |-> 0]

PureIdle ==
    /\ text = <<>>
    /\ decoded = None
    /\ fees = None
    /\ line = None

Init ==
    /\ file \in {[dir |-> InputDir, name |-> n] : n \in InputNames}
    /\ output_arg \in {None, Some(default_output(file)), Some(OtherOutput)}
    /\ \E in \in {Absent, Dir} \cup {File(c) : c \in Inputs},
          out \in {Absent, Dir, File(<<"stale", "\n">>)} :
          LET target == IF output_arg.some THEN output_arg.v
                        ELSE default_output(file)
          IN  fs = [p \in Paths |-> IF p = file THEN in
                                    ELSE IF p = target THEN out ELSE Absent]
    /\ dirs = {InputDir}
    /\ pc = "Idle"
    /\ output = None
    /\ consumed = 0
    /\ statistics = EmptyMap
    /\ pending = {}
    /\ result = None
    /\ PureIdle

Fail(err) ==
    /\ pc' = "Failed"
    /\ result' = Some([ok |-> FALSE, err |-> err])

IoError == [kind |-> "IoError"]

\* the call
Call ==
    /\ pc = "Idle"
    /\ pc' = "Validating"
    /\ UNCHANGED <<file, output_arg, fs, dirs, output, consumed, statistics,
                   pending, result, pureVars>>

\* a plausible slip: no existence check
Validate_unchecked ==
    /\ pc = "Validating"
    /\ output' = Some(IF output_arg.some THEN output_arg.v
                      ELSE default_output(file))
    /\ pc' = "Open"
    /\ UNCHANGED <<file, output_arg, fs, dirs, consumed, statistics, pending,
                   result, pureVars>>

\* 73-86: the existence check, then the output path
Validate ==
    /\ pc = "Validating"
    /\ IF fs[file].kind = "absent"
       THEN /\ Fail([kind |-> "FileNotFound", path |-> file])
            /\ UNCHANGED output
       ELSE /\ output' = Some(IF output_arg.some THEN output_arg.v
                              ELSE default_output(file))
            /\ pc' = "Open"
            /\ UNCHANGED result
    /\ UNCHANGED <<file, output_arg, fs, dirs, consumed, statistics, pending,
                   pureVars>>

\* a plausible slip: the output file is created when the input is opened
Open_creates ==
    /\ pc = "Open"
    /\ \/ /\ fs[file].kind = "file"
          /\ fs' = [fs EXCEPT ![output.v] = File(<<>>)]
          /\ pc' = "Read"
          /\ UNCHANGED result
       \/ /\ Fail(IoError)
          /\ UNCHANGED fs
    /\ UNCHANGED <<file, output_arg, dirs, output, consumed, statistics,
                   pending, pureVars>>

\* 89-90: csv::Reader::from_path; reading a directory fails
Open ==
    /\ pc = "Open"
    /\ \/ /\ fs[file].kind = "file"
          /\ pc' = "Read"
          /\ UNCHANGED result
       \/ Fail(IoError)
    /\ UNCHANGED <<file, output_arg, fs, dirs, output, consumed, statistics,
                   pending, pureVars>>

\* 94-104: the entry is merged; an overflowing addition wraps or, in a
\* build with overflow checks, panics
Merge(entry) ==
    \/ /\ statistics' = merge(statistics, entry)
       /\ UNCHANGED <<pc, result>>
    \/ /\ merge_panics(statistics, entry)
       /\ pc' = "Panicked"
       /\ UNCHANGED <<statistics, result>>

\* a plausible slip: a row that fails to decode is skipped
Consume_skips(row) ==
    /\ consumed' = consumed + 1
    /\ IF row.ok
       THEN Merge(row.entry)
       ELSE UNCHANGED <<pc, result, statistics>>

\* 92-104: `result?`, then the entry is merged
Consume(row) ==
    /\ consumed' = consumed + 1
    /\ IF row.ok
       THEN Merge(row.entry)
       ELSE /\ Fail([kind |-> row.kind, row |-> consumed + 1])
            /\ UNCHANGED statistics

\* 91-105: one turn of the loop, or its end
ReadRow ==
    /\ pc = "Read"
    /\ IF consumed = Len(fs[file].content.rows)
       THEN /\ pc' = "Remove"
            /\ UNCHANGED <<consumed, statistics, result>>
       ELSE Consume(decode_row(fs[file].content.header,
                               fs[file].content.rows[consumed + 1]))
    /\ UNCHANGED <<file, output_arg, fs, dirs, output, pending, pureVars>>

\* 107-109: remove_file fails on a directory
RemoveExisting ==
    /\ pc = "Remove"
    /\ \/ /\ fs[output.v].kind = "absent"
          /\ pc' = "Mkdir"
          /\ UNCHANGED <<fs, result>>
       \/ /\ fs[output.v].kind = "file"
          /\ fs' = [fs EXCEPT ![output.v] = Absent]
          /\ pc' = "Mkdir"
          /\ UNCHANGED result
       \/ /\ fs[output.v].kind # "absent"
          /\ Fail(IoError)
          /\ UNCHANGED fs
    /\ UNCHANGED <<file, output_arg, dirs, output, consumed, statistics,
                   pending, pureVars>>

\* 111-113: create_dir_all(parent)
CreateDirs ==
    /\ pc = "Mkdir"
    /\ \/ /\ dirs' = dirs \cup {output.v.dir}
          /\ pc' = "Create"
          /\ UNCHANGED result
       \/ /\ output.v.dir \notin dirs
          /\ Fail(IoError)
          /\ UNCHANGED dirs
    /\ UNCHANGED <<file, output_arg, fs, output, consumed, statistics,
                   pending, pureVars>>

\* 116: File::create
CreateFile ==
    /\ pc = "Create"
    /\ \/ /\ fs' = [fs EXCEPT ![output.v] = File(<<>>)]
          /\ pc' = "Header"
          /\ UNCHANGED result
       \/ /\ Fail(IoError)
          /\ UNCHANGED fs
    /\ UNCHANGED <<file, output_arg, dirs, output, consumed, statistics,
                   pending, pureVars>>

\* 117-118
WriteHeader ==
    /\ pc = "Header"
    /\ \/ /\ fs' = [fs EXCEPT ![output.v].content = @ \o <<csv_header, "\n">>]
          /\ pc' = "Lines"
          /\ pending' = DOMAIN statistics
          /\ UNCHANGED result
       \/ /\ Fail(IoError)
          /\ UNCHANGED <<fs, pending>>
    /\ UNCHANGED <<file, output_arg, dirs, output, consumed, statistics,
                   pureVars>>

\* 119-122: the next value of statistics.values(), in the map's order
WriteLine ==
    /\ pc = "Lines"
    /\ \E k \in pending :
          \/ /\ fs' = [fs EXCEPT ![output.v].content =
                                    @ \o to_string(statistics[k]) \o <<"\n">>]
             /\ pending' = pending \ {k}
             /\ UNCHANGED <<pc, result>>
          \/ /\ Fail(IoError)
             /\ UNCHANGED <<fs, pending>>
    /\ UNCHANGED <<file, output_arg, dirs, output, consumed, statistics,
                   pureVars>>

\* a plausible slip: the loop over the values ends early
Return_early ==
    /\ pc = "Lines"
    /\ pc' = "Done"
    /\ result' = Some([ok |-> TRUE])
    /\ UNCHANGED <<file, output_arg, fs, dirs, output, consumed, statistics,
                   pending, pureVars>>

\* 124
Return ==
    /\ pc = "Lines"
    /\ pending = {}
    /\ pc' = "Done"
    /\ result' = Some([ok |-> TRUE])
    /\ UNCHANGED <<file, output_arg, fs, dirs, output, consumed, statistics,
                   pending, pureVars>>

Next ==
    \/ Call
    \/ Validate
    \/ Open
    \/ ReadRow
    \/ RemoveExisting
    \/ CreateDirs
    \/ CreateFile
    \/ WriteHeader
    \/ WriteLine
    \/ Return

Spec == Init /\ [][Next]_vars

(***************************************************************************)
(* What the properties speak of: the rows of the input, the rows merged so *)
(* far, the lines of the output.                                           *)
(***************************************************************************)
InputRows == fs[file].content.rows
InputHeader == fs[file].content.header

RowErrKinds == {"MalformedAmount", "MissingColumn", "DecodeError"}

RowFailed == pc = "Failed" /\ result.v.err.kind \in RowErrKinds

\* the rows merged into the Summary: those consumed, but for the one that
\* stopped the loop
Merged == IF RowFailed \/ pc = "Panicked" THEN consumed - 1 ELSE consumed

AmountOf(row) == deserialize(row.Amount).amount

CountOf(k, n) == Cardinality({i \in 1..n : InputRows[i].UserID = k})

\* the integer sum of the amounts of the first n rows whose User ID is in keys
RECURSIVE SumOf(_, _)
SumOf(keys, n) ==
    IF n = 0 THEN Signed(FALSE, <<>>)
    ELSE IF InputRows[n].UserID \in keys
    THEN AddSigned(SumOf(keys, n - 1), AmountOf(InputRows[n]))
    ELSE SumOf(keys, n - 1)

\* the integer sum of total_fees over the accounts in keys
RECURSIVE TotalOf(_)
TotalOf(keys) ==
    IF keys = {} THEN Signed(FALSE, <<>>)
    ELSE LET k == CHOOSE x \in keys : TRUE
         IN  AddSigned(TotalOf(keys \ {k}), statistics[k].total_fees)

\* v modulo 2^64, in the range of an i64
RECURSIVE Mod64(_)
Mod64(v) == IF InI64(v) THEN v ELSE Mod64(Wrap64(v))

Reading == fs[file].kind = "file" /\ pc \notin {"Idle", "Validating", "Open"}

\* C1 as stated: after any prefix of the rows is merged, every account's
\* transaction_count is the number of its rows in the prefix and its
\* total_fees is the integer sum of their amounts; at the end of the input
\* the totals of all accounts add up to the sum of all amounts.
C1_IntegerSums ==
    Reading =>
        /\ \A k \in DOMAIN statistics :
              /\ statistics[k].transaction_count = CountOf(k, Merged)
              /\ statistics[k].total_fees = SumOf({k}, Merged)
        /\ Merged = Len(InputRows) =>
              TotalOf(DOMAIN statistics) = SumOf(DOMAIN statistics, Merged)

\* C1 as the code has it: the count as stated, total_fees the sum of the
\* amounts modulo 2^64 (the sum itself when it fits an i64), and at the end
\* of the input the totals of all accounts congruent to the sum of all
\* amounts; the Summary holds exactly the accounts of the merged rows.
C1_WrappedSums ==
    Reading =>
        /\ DOMAIN statistics = {InputRows[i].UserID : i \in 1..Merged}
        /\ \A k \in DOMAIN statistics :
              /\ statistics[k].transaction_count = CountOf(k, Merged)
              /\ statistics[k].total_fees = Mod64(SumOf({k}, Merged))
        /\ Merged = Len(InputRows) =>
              Mod64(TotalOf(DOMAIN statistics))
                  = Mod64(SumOf(DOMAIN statistics, Merged))

\* two rows of one account merged: 0,25 and -1.5 make -125
C1_Witness ==
    /\ Reading
    /\ Merged = 2
    /\ "acct_1" \in DOMAIN statistics
    /\ statistics["acct_1"].transaction_count = 2
    /\ statistics["acct_1"].total_fees = IntI64(0 - 125)

\* the first row of the input with User ID k
FirstRow(k) ==
    CHOOSE i \in 1..Len(InputRows) :
        /\ ~InputRows[i].ragged /\ InputRows[i].UserID = k
        /\ \A j \in 1..(i - 1) : InputRows[j].ragged \/ InputRows[j].UserID # k

\* the lines of a text, each without its "\n"; text after the last "\n" is a
\* line of its own
RECURSIVE SplitLines(_)
SplitLines(c) ==
    IF c = <<>> THEN <<>>
    ELSE IF \A i \in 1..Len(c) : c[i] # "\n" THEN <<c>>
    ELSE LET n == CHOOSE i \in 1..Len(c) :
                      c[i] = "\n" /\ \A j \in 1..(i - 1) : c[j] # "\n"
         IN  <<SubSeq(c, 1, n - 1)>> \o SplitLines(Drop(c, n))

\* the data lines written so far
DataLines == Tail(SplitLines(fs[output.v].content))

\* C2: the email of an account, in the Summary and in its output line, is
\* the User Email of the first input row with that User ID, whatever the
\* later rows of the account say.
C2_FirstEmailWins ==
    Reading =>
        /\ \A k \in DOMAIN statistics :
              statistics[k].email = InputRows[FirstRow(k)].UserEmail
        /\ pc \in {"Lines", "Done"} =>
              \A i \in 1..Len(DataLines) :
                  DataLines[i][3] = InputRows[FirstRow(DataLines[i][1])].UserEmail

\* an account whose second row carries another email, written out
C2_Witness ==
    /\ pc = "Done"
    /\ Len(InputRows) = 2
    /\ InputRows[1].UserEmail = "a@x"
    /\ InputRows[2].UserEmail = "b@x"
    /\ InputRows[2].UserID = "acct_1"
    /\ statistics["acct_1"].transaction_count = 2
    /\ statistics["acct_1"].email = "a@x"
    /\ \E i \in 1..Len(DataLines) : DataLines[i][3] = "a@x"

\* the User IDs of the input
UserIDs == {InputRows[i].UserID : i \in 1..Len(InputRows)}

\* C3: after a successful parse the output is the header line and then one
\* line per distinct User ID of the input, none missing, none twice, none
\* invented; a header-only input gives the header line alone.
C3_OneLinePerAccount ==
    pc = "Done" =>
        /\ fs[output.v].kind = "file"
        /\ SplitLines(fs[output.v].content)[1] = <<csv_header>>
        /\ Len(DataLines) = Cardinality(UserIDs)
        /\ {DataLines[i][1] : i \in 1..Len(DataLines)} = UserIDs
        /\ InputRows = <<>> => fs[output.v].content = <<csv_header, "\n">>

\* a successful parse of two accounts
C3_Witness ==
    /\ pc = "Done"
    /\ UserIDs = {"acct_1", "acct_2"}
    /\ Len(DataLines) = 2

PreWriting == {"Idle", "Validating", "Open", "Read"}

C6_Stopped ==
    Reading =>
        \A i \in 1..consumed :
            ~decode_row(InputHeader, InputRows[i]).ok =>
                /\ i = consumed
                /\ pc = "Failed"
                /\ result = Some([ok |-> FALSE,
                                  err |-> [kind |-> decode_row(InputHeader,
                                                         InputRows[i]).kind,
                                           row |-> i]])
                /\ \A k \in DOMAIN statistics :
                      statistics[k].transaction_count = CountOf(k, i - 1)

C6_NothingWritten ==
    /\ pc \in PreWriting => fs' = fs /\ dirs' = dirs
    /\ pc' \in PreWriting => pc \in PreWriting
    /\ RowFailed' => pc = "Read"

\* C6: the first row that fails to decode ends the parse: its error is
\* returned, it is the last row consumed, the rows before it and no other
\* are merged, and nothing is created, written or removed, the failure
\* coming before the writing starts.
C6_FailFast == []C6_Stopped /\ [][C6_NothingWritten]_vars

\* a malformed Amount in the first of two rows
C6_Witness ==
    /\ RowFailed
    /\ result.v.err = [kind |-> "MalformedAmount", row |-> 1]
    /\ Len(InputRows) = 2
    /\ consumed = 1
    /\ statistics = EmptyMap

C7_Failed(path) ==
    fs[file].kind = "absent" =>
        /\ output = None
        /\ consumed = 0
        /\ pc \in {"Idle", "Validating", "Failed"}
        /\ pc # "Failed" => result = None
        /\ pc = "Failed" =>
              /\ result = Some([ok |-> FALSE,
                                err |-> [kind |-> "FileNotFound", path |-> file]])
              /\ ErrorMessage(result.v.err)[2] = path

C7_NoEffect ==
    fs[file].kind = "absent" =>
        /\ fs' = fs
        /\ dirs' = dirs
        /\ pc = "Validating" => pc' = "Failed"

\* C7 as stated: an input path at which nothing exists makes parse fail at
\* once with FileNotFound carrying the path, the message containing the
\* path, nothing opened, no output path bound, no file or directory created
\* or removed.
C7_MessageHoldsPath == []C7_Failed(file) /\ [][C7_NoEffect]_vars

\* C7 as the code has it: the same, the message containing the path as
\* Path::display renders it (U+FFFD for what is not UTF-8).
C7_MessageDisplaysPath == []C7_Failed(display(file)) /\ [][C7_NoEffect]_vars

\* the input does not exist and parse has returned
C7_Witness ==
    /\ fs[file] = Absent
    /\ pc = "Failed"
    /\ result.v.err.kind = "FileNotFound"

\* the input's name without its extension
StemOf(name) == SubSeq(name, 1, Len(name) - 2)

Derived(stem) == [dir |-> file.dir, name |-> stem \o <<"_out.csv">>]

C9_WritesTo(path) ==
    output_arg \in {None, Some(path)} =>
        /\ output.some => output.v = path
        /\ pc = "Done" =>
              /\ path \in DOMAIN fs
              /\ fs[path].kind = "file"
              /\ fs[path].content[1] = csv_header

C9_OutputKept ==
    /\ output_arg' = output_arg
    /\ output.some => output' = output

\* C9 as stated: without an output path parse writes to the input's stem
\* followed by _out.csv in the input's directory, and giving that path has
\* the same outcome as giving none.
C9_StemPlusSuffix == []C9_WritesTo(Derived(StemOf(file.name)))

\* C9 as the code has it: the stem is replaced by the word output when it
\* is not UTF-8; the path is bound once, before the input is opened, to the
\* same value whether it is given or derived, and nothing later reads the
\* argument.
C9_StemOrOutput ==
    /\ []C9_WritesTo(Derived(IF NonUtf8 \in {file.name[i] : i \in 1..Len(file.name)}
                             THEN <<"output">> ELSE StemOf(file.name)))
    /\ [][C9_OutputKept]_vars

\* a successful parse, no output path given, of an input whose name is not
\* UTF-8
C9_Witness ==
    /\ pc = "Done"
    /\ output_arg = None
    /\ file.name[1] = NonUtf8
    /\ fs[[dir |-> InputDir, name |-> <<"output", "_out.csv">>]].kind = "file"

\* the phases of an invocation, in their order; Failed after them, and the
\* panic the description of the phases leaves out
Phase(p) ==
    CASE p = "Idle" -> 1
      [] p = "Validating" -> 2
      [] p \in {"Open", "Read"} -> 3
      [] p \in {"Remove", "Mkdir", "Create", "Header", "Lines"} -> 4
      [] p = "Done" -> 5
      [] p = "Failed" -> 6
      [] p = "Panicked" -> 7

C10_Ends(terminal) ==
    /\ Phase(pc) \in 1..terminal
    /\ pc = "Done" <=> result = Some([ok |-> TRUE])
    /\ pc = "Failed" <=> result.some /\ ~result.v.ok
    /\ pc \notin {"Done", "Failed"} <=> result = None

C10_Moves(terminal) ==
    /\ Phase(pc) < 5
    /\ \/ Phase(pc') \in {Phase(pc), Phase(pc) + 1}
       \/ Phase(pc') = 6 /\ result'.some /\ ~result'.v.ok
       \/ Phase(pc') = terminal /\ Phase(pc) = 3
    /\ fs' # fs \/ dirs' # dirs =>
          Phase(pc) = 4 /\ consumed = Len(InputRows)

\* C10 as stated: an invocation goes through Idle, Validating, Streaming,
\* Writing, Done in that order, none skipped or revisited; the output is
\* created and written only once every row is consumed; the only other
\* move from a phase that is not terminal is to Failed with the error; the
\* invocation has returned Ok exactly in Done and Err exactly in Failed,
\* it is in no other state when it has ended, and it leaves neither.
C10_PhaseOrder == []C10_Ends(6) /\ [][C10_Moves(6)]_vars

\* C10 as the code has it: the same, but that Streaming can also end in a
\* panic, nothing returned, when the addition of an amount overflows in a
\* build that checks overflow.
C10_PhaseOrderOrPanic == []C10_Ends(7) /\ [][C10_Moves(7)]_vars

\* a successful parse of two rows, the output written
C10_Witness ==
    /\ pc = "Done"
    /\ consumed = 2
    /\ result = Some([ok |-> TRUE])
    /\ fs[output.v].kind = "file"

(***************************************************************************)
(* The amount decoder alone: deserialize applied to a cell.                *)
(***************************************************************************)
MaxLen == 5

AmountChars == {"-", "0", "1", "5", ".", ","}

\* cells beyond the alphabet: words, specials, exponents, other signs
OtherTexts ==
    {<<"i", "n", "v", "a", "l", "i", "d">>, <<"n", "a", "n">>, <<"N", "a", "N">>,
     <<"i", "n", "f">>, <<"-", "i", "n", "f", "i", "n", "i", "t", "y">>,
     <<"1", "e", "2">>, <<"1", ".", "5", "E", "-", "1">>, <<"+", "4", "2">>,
     <<"0", ".", "1", "2", "6">>, <<"0", ",", "1", "2", "4">>,
     <<"1", ",", "2", "3", "4">>, <<"0", ".", "2", "8", "5">>,
     <<" ", "1">>, <<"1", "_", "0">>, <<"0", "x", "1">>}

ParseIdle ==
    /\ file = [dir |-> InputDir, name |-> <<"fees", ".", "csv">>]
    /\ output_arg = None
    /\ fs = [p \in Paths |-> Absent]
    /\ dirs = {InputDir}
    /\ pc = "Idle"
    /\ output = None
    /\ consumed = 0
    /\ statistics = EmptyMap
    /\ pending = {}
    /\ result = None

InitAmount ==
    /\ ParseIdle
    /\ text \in SeqsUpTo(AmountChars, MaxLen) \cup OtherTexts
    /\ decoded = None
    /\ fees = None
    /\ line = None

Decode ==
    /\ decoded = None
    /\ decoded' = Some(deserialize(text))
    /\ UNCHANGED <<parseVars, text, fees, line>>

NextAmount == Decode

SpecAmount == InitAmount /\ [][NextAmount]_vars

\* an optional sign, then digits with at most one separator among them
Unsigned(s) == IF s # <<>> /\ s[1] \in {"+", "-"} THEN Tail(s) ELSE s

Separators(s) == {i \in 1..Len(s) : s[i] \in {".", ","}}

ValidAmount(s) ==
    /\ \A i \in 1..Len(Unsigned(s)) : Unsigned(s)[i] \in Digits \cup {".", ","}
    /\ Cardinality(Separators(Unsigned(s))) <= 1
    /\ \E i \in 1..Len(Unsigned(s)) : Unsigned(s)[i] \in Digits

\* n / 10^f to the nearest integer, ties away from zero
RoundHalfAway(n, f) ==
    IF 2 * (n % (10 ^ f)) >= 10 ^ f THEN n \div (10 ^ f) + 1 ELSE n \div (10 ^ f)

\* the decimal value of a valid amount, times 100, rounded: in integers
ExactCents(s) ==
    LET u    == Unsigned(s)
        sep  == Separators(u)
        f    == IF sep = {} THEN 0 ELSE Len(u) - (CHOOSE i \in sep : TRUE)
        n    == DecNat(SelectSeq(u, LAMBDA c : c \in Digits))
        mag  == RoundHalfAway(100 * n, f)
    IN  IF s[1] = "-" THEN 0 - mag ELSE mag

\* the text with every "," a "." and every "." a ","
Swapped(s) ==
    [i \in 1..Len(s) |-> IF s[i] = "," THEN "." ELSE IF s[i] = "." THEN "," ELSE s[i]]

\* C4: for a valid amount text the decoder returns its exact decimal value
\* times 100, rounded to the nearest integer, ties away from zero, and the
\* same for "," as for ".".
C4_ExactCents ==
    decoded.some /\ ValidAmount(text) =>
        /\ decoded.v.ok
        /\ decoded.v.amount = IntI64(ExactCents(text))
        /\ decoded.v = deserialize(Swapped(text))

\* C5: the decoder accepts a text only if it is an optional sign, digits
\* and at most one separator; anything else is an error.
C5_OnlyDecimalText ==
    decoded.some /\ decoded.v.ok => ValidAmount(text)

(***************************************************************************)
(* Display alone: to_string applied to an AccountFees.                     *)
(***************************************************************************)
MaxCents == 150

\* totals near the powers of two where an f64 starts to lose cents, and the
\* ends of the i64 range
LargeTotals ==
    {Signed(FALSE, DecBig(<<"7", "0", "3", "6", "8", "7", "4", "4", "1", "7",
                            "7", "6", "6", "3", "9", "9">>)),
     Signed(TRUE,  DecBig(<<"7", "0", "3", "6", "8", "7", "4", "4", "1", "7",
                            "7", "6", "6", "4", "0", "1">>)),
     Signed(FALSE, MulAdd(ShiftLeft(<<1>>, MantBits), 1, 1)),
     I64Max, I64Min}

Totals == {IntI64(n) : n \in (0 - MaxCents)..MaxCents} \cup LargeTotals

InitDisplay ==
    /\ ParseIdle
    /\ text = <<>>
    /\ decoded = None
    /\ fees \in {Some([new("acct_1", e) EXCEPT !.transaction_count = n,
                                               !.total_fees = t]) :
                    e \in Emails, n \in {2, 12}, t \in Totals}
    /\ line = None

Format ==
    /\ line = None
    /\ line' = Some(to_string(fees.v))
    /\ UNCHANGED <<parseVars, text, decoded, fees>>

NextDisplay == Format

SpecDisplay == InitDisplay /\ [][NextDisplay]_vars

\* |total| div 100, a point, and the two digits of |total| mod 100
ExactEur(neg, qr) ==
    (IF neg THEN <<"-">> ELSE <<>>)
    \o PadDec(Norm(qr.q), 1) \o <<".", DigitChar(qr.r \div 10), DigitChar(qr.r % 10)>>

\* C8: the line of a record is account_id, email, transaction_count and
\* total_fees / 100 written exactly: "-" iff the total is negative, the
\* integer part of |total| / 100, a point, the two digits of |total| mod 100.
C8_ExactLine ==
    line.some =>
        line.v = <<fees.v.account_id, ",", fees.v.email, ",">>
                 \o PadDec(BigNat(fees.v.transaction_count), 1) \o <<",">>
                 \o ExactEur(fees.v.total_fees.neg,
                             DivRem(fees.v.total_fees.mag, 100, 0))

====
